---- MODULE Spec2Model ----
(***************************************************************************)
(* Model of deepsensor's Task container (deepsensor/data/task.py) and of   *)
(* the prediction orchestrator DeepSensorModel.predict                     *)
(* (deepsensor/model/model.py).                                            *)
(*                                                                         *)
(* Python objects live on a heap: a sequence of objects addressed by their *)
(* position.  A dict, list or tuple holds the addresses of its items, so   *)
(* that aliasing, copy.deepcopy and in-place assignment are what they are  *)
(* in the interpreter.                                                     *)
(***************************************************************************)
EXTENDS Integers, Sequences, FiniteSets, TLC

VARIABLES
    heap,       \* the object heap: heap[a] is the object at address a
    pre,        \* the heap as it was before the last operation
    given,      \* address of the Task the caller built
    live,       \* addresses of the Tasks the caller holds
    cur,        \* address of the Task returned last (the caller's, if none)
    res,        \* address of the Task the last operation returned (0: none)
    err,        \* the error the last operation raised ("none": it returned)
    op,         \* the last operation and its arguments
    nops,       \* number of operations performed so far
    wrote,      \* whether the caller has written into a returned task
    pc,         \* predict: the statement it is at
    arg,        \* predict: its arguments and the attributes of the model
    loc,        \* predict: its local variables
    rng,        \* the global random generators (lab's and numpy's)
    log,        \* predict: the calls it has made, in order
    out,        \* predict: the output containers mean, std and samples
    perr        \* predict: the error it raised ("none": none)

taskVars == <<given, live, cur, res, err, op, nops, wrote>>
predictVars == <<pc, arg, loc, rng, log, out, perr>>
vars == <<heap, pre, taskVars, predictVars>>

-----------------------------------------------------------------------------
(* Bounds of the model.                                                    *)

MaxOps == 1         \* operations performed on the caller's task and results
MaxSets == 2        \* context sets of a task
MaxTasks == 2       \* tasks passed to predict
MaxSamples == 1     \* n_samples passed to predict

-----------------------------------------------------------------------------
(* Heap objects.  Every object is a record of the same shape:              *)
(*   kind  "dict" | "list" | "tuple" | "arr" | "val"                       *)
(*   refs  addresses of the items (dict: one per key of Keys, 0 = absent)  *)
(*   nd    number of dimensions of an array                                *)
(*   data  the rows of an array (a 1-D array is one row), or the value of  *)
(*         an immutable scalar                                             *)

Keys == <<"X_c", "Y_c", "X_t", "time", "flag", "context_station_IDs",
          "target_station_IDs", "target_station_IDs_heldout", "region">>

KeyIdx(k) == CHOOSE i \in 1..Len(Keys) : Keys[i] = k

Arr(nd, data) == [kind |-> "arr", refs |-> <<>>, nd |-> nd, data |-> data]
Val(n) == [kind |-> "val", refs |-> <<>>, nd |-> 0, data |-> << <<n>> >>]
ListObj(refs) == [kind |-> "list", refs |-> refs, nd |-> 0, data |-> <<>>]
TupleObj(refs) == [kind |-> "tuple", refs |-> refs, nd |-> 0, data |-> <<>>]
DictObj(refs) == [kind |-> "dict", refs |-> refs, nd |-> 0, data |-> <<>>]

NoneVal == 0
NoFlag == -1      \* no "flag" key in the mapping

\* task[k]: the address bound to key k of the dict at address t (0: no key)
Get(h, t, k) == h[t].refs[KeyIdx(k)]

\* task[k] = a
SetKey(h, t, k, a) ==
    [h EXCEPT ![t].refs = [@ EXCEPT ![KeyIdx(k)] = a]]

\* lst[i] = a   (i counted from 1 here)
SetItem(h, l, i, a) == [h EXCEPT ![l].refs = [@ EXCEPT ![i] = a]]

\* a new object
Alloc(h, o) == [h |-> Append(h, o), a |-> Len(h) + 1]

-----------------------------------------------------------------------------
(* copy.deepcopy: every object reachable from a is copied once (the memo   *)
(* of deepcopy keeps shared items shared) into fresh addresses.            *)

Children(h, a) == {h[a].refs[i] : i \in 1..Len(h[a].refs)} \ {0}

RECURSIVE ReachFrom(_, _, _)
ReachFrom(h, frontier, seen) ==
    IF frontier = {} THEN seen
    ELSE LET done == seen \cup frontier
             new == (UNION {Children(h, a) : a \in frontier}) \ done
         IN  ReachFrom(h, new, done)

Reach(h, a) == IF a = 0 THEN {} ELSE ReachFrom(h, {a}, {})

\* the copy of the objects R of h: the k-th smallest address of R is copied
\* to address Len(h) + k, its items redirected to the copies
CopyObjects(h, a, R) ==
    LET n == Len(h)
        New(b) == IF b = 0 THEN 0 ELSE n + Cardinality({c \in R : c <= b})
        Old(i) == CHOOSE b \in R : New(b) = i
        copyOf(o) == [o EXCEPT !.refs = [j \in 1..Len(o.refs) |-> New(o.refs[j])]]
    IN  [h |-> [i \in 1..(n + Cardinality(R)) |->
                    IF i <= n THEN h[i] ELSE copyOf(h[Old(i)])],
         a |-> New(a)]

DeepCopy(h, a) == CopyObjects(h, a, Reach(h, a))

\* copy.copy of a dict: a new dict bound to the same items
ShallowCopy(h, a) == Alloc(h, h[a])

\* value equality of the object at a1 in h1 and the object at a2 in h2
RECURSIVE DeepEq(_, _, _, _)
DeepEq(h1, a1, h2, a2) ==
    IF a1 = 0 \/ a2 = 0 THEN a1 = a2
    ELSE LET o1 == h1[a1]
             o2 == h2[a2]
         IN  /\ o1.kind = o2.kind
             /\ o1.nd = o2.nd
             /\ o1.data = o2.data
             /\ Len(o1.refs) = Len(o2.refs)
             /\ \A i \in 1..Len(o1.refs) :
                    DeepEq(h1, o1.refs[i], h2, o2.refs[i])

-----------------------------------------------------------------------------
(* Errors.  An operation's outcome carries the error it raised, with the   *)
(* two arguments of TaskSetIndexError (requested index, number of sets).   *)

NoErr == [type |-> "none", idx |-> 0, n |-> 0]
Raise(type) == [type |-> type, idx |-> 0, n |-> 0]

\* (the last valid index reported in place of the number of sets)
TaskSetIndexErrorLastIndex(idx, n) ==
    [type |-> "TaskSetIndexError", idx |-> idx, n |-> n - 1]

\* TaskSetIndexError(context_set_idx, len(task["X_c"]), "context")
TaskSetIndexError(idx, n) == [type |-> "TaskSetIndexError", idx |-> idx, n |-> n]

-----------------------------------------------------------------------------
(* Task.modify                                                             *)

\* the functions a caller passes to modify
Transforms == {"identity", "add_one", "assert_not_1d"}

\* f(v) for the array at address a: identity returns its argument, add_one
\* returns a new array (v + 1), assert_not_1d raises on a 1-D array and
\* returns its argument otherwise
ApplyF(h, f, a) ==
    CASE f = "identity" -> [h |-> h, a |-> a, err |-> NoErr]
      [] f = "add_one" ->
            LET o == h[a]
            IN  [h |-> Append(h, Arr(o.nd,
                        [i \in 1..Len(o.data) |->
                            [j \in 1..Len(o.data[i]) |-> o.data[i][j] + 1]])),
                 a |-> Len(h) + 1, err |-> NoErr]
      [] f = "assert_not_1d" ->
            IF h[a].nd = 1 THEN [h |-> h, a |-> 0, err |-> Raise("AssertionError")]
            ELSE [h |-> h, a |-> a, err |-> NoErr]

StationKeys == {"context_station_IDs", "target_station_IDs",
                "target_station_IDs_heldout"}

\* (a list of keys that misses one of the three)
PassThroughKeyMissingOne(k) ==
    k \in {"context_station_IDs", "target_station_IDs_heldout"}

\* if k in ["context_station_IDs", "target_station_IDs",
\*          "target_station_IDs_heldout"]: return v
PassThroughKey(k) == k \in StationKeys

\* the inner function modify(k, v) of Task.modify, v the object at address a;
\* ModifyItems is its list comprehension / pair construction over refs[i..]
RECURSIVE ModifyVal(_, _, _, _)
RECURSIVE ModifyItems(_, _, _, _, _, _)
ModifyVal(h, k, a, f) ==
    IF PassThroughKey(k) THEN [h |-> h, a |-> a, err |-> NoErr]
    ELSE IF h[a].kind \in {"list", "tuple"} THEN
        LET Collect(r) ==
                IF r.err.type # "none" THEN [h |-> r.h, a |-> 0, err |-> r.err]
                ELSE [h |-> Append(r.h, IF h[a].kind = "list"
                                        THEN ListObj(r.refs)
                                        ELSE TupleObj(r.refs)),
                      a |-> Len(r.h) + 1, err |-> NoErr]
        IN  Collect(ModifyItems(h, k, h[a].refs, 1, <<>>, f))
    ELSE IF h[a].kind = "arr" THEN ApplyF(h, f, a)
    ELSE [h |-> h, a |-> a, err |-> NoErr]

ModifyItems(h, k, refs, i, acc, f) ==
    IF i > Len(refs) THEN [h |-> h, refs |-> acc, err |-> NoErr]
    ELSE LET Rest(r) ==
                IF r.err.type # "none"
                THEN [h |-> r.h, refs |-> acc, err |-> r.err]
                ELSE ModifyItems(r.h, k, refs, i + 1, Append(acc, r.a), f)
         IN  Rest(ModifyVal(h, k, refs[i], f))

\* for k, v in self.items(): self[k] = modify(k, v)   (keys i..)
RECURSIVE ModifyKeys(_, _, _, _)
ModifyKeys(h, t, i, f) ==
    IF i > Len(Keys) THEN [h |-> h, err |-> NoErr]
    ELSE IF h[t].refs[i] = 0 THEN ModifyKeys(h, t, i + 1, f)
    ELSE LET Rest(r) ==
                IF r.err.type # "none" THEN [h |-> r.h, err |-> r.err]
                ELSE ModifyKeys(SetKey(r.h, t, Keys[i], r.a), t, i + 1, f)
         IN  Rest(ModifyVal(h, Keys[i], h[t].refs[i], f))

\* self = copy.deepcopy(self)
ModifyCopy(h, t) == DeepCopy(h, t)

\* (the flag left as the copy has it)
SetFlagSkipped(h, t, flag) == h

\* self["flag"] = modify_flag
SetFlag(h, t, flag) == SetKey(Append(h, Val(flag)), t, "flag", Len(h) + 1)

\* Task.modify(f, modify_flag) on the task at address t
Modify(h, t, f, flag) ==
    LET Finish(self, m) ==
            IF m.err.type # "none" THEN [h |-> m.h, a |-> 0, err |-> m.err]
            ELSE [h |-> SetFlag(m.h, self, flag), a |-> self, err |-> NoErr]
        Body(c) == Finish(c.a, ModifyKeys(c.h, c.a, 1, f))
    IN  Body(ModifyCopy(h, t))

-----------------------------------------------------------------------------
(* append_obs_to_task                                                      *)

\* an array value, as the caller passes X_new and Y_new
ArrVal(nd, data) == [nd |-> nd, data |-> data]

NRows(v) == Len(v.data)

\* X_new[:, None] of a 1-D array: one row per element, one column
Promote(v) ==
    IF v.nd = 1
    THEN ArrVal(2, [i \in 1..Len(v.data[1]) |-> <<v.data[1][i]>>])
    ELSE v

\* whether np.concatenate([a, b], axis=-1) accepts the shapes
CanConcat(a, b) ==
    /\ a.nd = b.nd
    /\ a.nd = 2 => NRows(a) = NRows(b)

\* (the new data put before the old)
ConcatBefore(a, b) ==
    ArrVal(a.nd, [i \in 1..NRows(a) |-> b.data[i] \o a.data[i]])

\* np.concatenate([a, b], axis=-1)
Concat(a, b) ==
    ArrVal(a.nd, [i \in 1..NRows(a) |-> a.data[i] \o b.data[i]])

\* (copy.copy in place of copy.deepcopy)
AppendCopyShallow(h, t) == ShallowCopy(h, t)

\* task_with_new = copy.deepcopy(task)
AppendCopy(h, t) == DeepCopy(h, t)

\* task_with_new[k][context_set_idx] =
\*     np.concatenate([task[k][context_set_idx], new], axis=-1)
AppendTo(h, t, c, k, idx, new) ==
    LET old == h[h[Get(h, t, k)].refs[idx + 1]]
        Store(cat) == SetItem(Append(h, Arr(cat.nd, cat.data)),
                              Get(h, c, k), idx + 1, Len(h) + 1)
    IN  Store(Concat(ArrVal(old.nd, old.data), new))

CanAppendTo(h, t, k, idx, new) ==
    LET old == h[h[Get(h, t, k)].refs[idx + 1]]
    IN  CanConcat(ArrVal(old.nd, old.data), new)

\* the range check of context_set_idx
IndexInRange(idx, n) == 0 <= idx /\ idx <= n - 1

\* (the check made on the values in place of the coordinates)
IsGriddedY(h, t, idx) == h[h[Get(h, t, "Y_c")].refs[idx + 1]].kind = "tuple"

\* isinstance(task["X_c"][context_set_idx], tuple)
IsGridded(h, t, idx) == h[h[Get(h, t, "X_c")].refs[idx + 1]].kind = "tuple"

\* append_obs_to_task(task, X_new, Y_new, context_set_idx), task at address t
AppendObs(h, t, xn, yn, idx) ==
    LET n == Len(h[Get(h, t, "X_c")].refs)
    IN  IF ~IndexInRange(idx, n)
        THEN [h |-> h, a |-> 0, err |-> TaskSetIndexError(idx, n)]
        ELSE IF IsGridded(h, t, idx)
        THEN [h |-> h, a |-> 0, err |-> Raise("GriddedDataError")]
        ELSE
          LET xp == Promote(xn)
              yp == Promote(yn)
              AppendY(hx, c) ==
                  IF ~CanAppendTo(hx, t, "Y_c", idx, yp)
                  THEN [h |-> hx, a |-> 0, err |-> Raise("ValueError")]
                  ELSE [h |-> AppendTo(hx, t, c, "Y_c", idx, yp),
                        a |-> c, err |-> NoErr]
              AppendX(c) ==
                  IF ~CanAppendTo(c.h, t, "X_c", idx, xp)
                  THEN [h |-> c.h, a |-> 0, err |-> Raise("ValueError")]
                  ELSE AppendY(AppendTo(c.h, t, c.a, "X_c", idx, xp), c.a)
          IN  AppendX(AppendCopy(h, t))

-----------------------------------------------------------------------------
(* The tasks a caller constructs: Task(task_dict) wraps any mapping.  A    *)
(* layout gives the kind of each context set: "u" ungridded (X a 2-D array *)
(* of 2 coordinates x N observations, Y a 2-D array of 1 variable x N      *)
(* observations), "g" gridded (X a pair of 1-D axes, Y a 3-D array).       *)

Layouts == UNION {[1..n -> {"u", "g"}] : n \in 0..MaxSets}

\* the ungridded set at position i holds i observations
XArr(i) == Arr(2, <<[j \in 1..i |-> 10 * i + j], [j \in 1..i |-> 10 * i + 5 + j]>>)
YArr(i) == Arr(2, <<[j \in 1..i |-> 100 * i + j]>>)
GridAxis1 == Arr(1, << <<0, 1>> >>)
GridAxis2 == Arr(1, << <<0, 1, 2>> >>)
YGrid == Arr(3, << <<1, 2, 3, 4, 5, 6>> >>)

\* the objects of the context sets' coordinates (kind X) and values (kind Y)
\* allocated after n objects; refs are the addresses of the sets themselves
RECURSIVE AllocSets(_, _, _, _, _, _)
AllocSets(n, kind, layout, i, objs, refs) ==
    IF i > Len(layout) THEN [objs |-> objs, refs |-> refs]
    ELSE IF kind = "Y"
    THEN AllocSets(n, kind, layout, i + 1,
                   Append(objs, IF layout[i] = "u" THEN YArr(i) ELSE YGrid),
                   Append(refs, n + Len(objs) + 1))
    ELSE IF layout[i] = "u"
    THEN AllocSets(n, kind, layout, i + 1, Append(objs, XArr(i)),
                   Append(refs, n + Len(objs) + 1))
    ELSE AllocSets(n, kind, layout, i + 1,
                   objs \o <<GridAxis1, GridAxis2,
                             TupleObj(<<n + Len(objs) + 1, n + Len(objs) + 2>>)>>,
                   Append(refs, n + Len(objs) + 3))

\* the list [items...] allocated after n objects: the items, then the list
ListOf(r) == Append(r.objs, ListObj(r.refs))

\* Task({"X_c": [...], "Y_c": [...], "X_t": [arr] * nT, "time": t,
\*       ["flag": flag,] "target_station_IDs": [arr], "region": r}) allocated
\* on heap h; flag NoFlag stands for a mapping without the key; region is a
\* name (a scalar) or a bounding box (an array)
NewTask(h, layout, nT, time, flag, regionArr) ==
    LET d == Len(h) + 1                       \* the dict itself
        hasFlag == flag # NoFlag
        Build(xs, ys) ==
            LET xl == d + Len(xs)
                yl == xl + Len(ys)
                xt == yl + nT + 1
                fl == IF hasFlag THEN xt + 2 ELSE 0
                sid == IF hasFlag THEN xt + 3 ELSE xt + 2
            IN  h \o <<DictObj(<<xl, yl, xt, xt + 1, fl, 0, sid + 1, 0, sid + 2>>)>>
                  \o xs \o ys
                  \o [j \in 1..nT |-> Arr(2, << <<j, 2>>, <<3, 4>> >>)]
                  \o <<ListObj([j \in 1..nT |-> yl + j]), Val(time)>>
                  \o (IF hasFlag THEN <<Val(flag)>> ELSE <<>>)
                  \o <<Arr(1, << <<7, 8>> >>), ListObj(<<sid>>),
                       IF regionArr THEN Arr(1, << <<0, 1, 0, 1>> >>) ELSE Val(5)>>
        BuildY(xs) ==
            Build(xs, ListOf(AllocSets(d + Len(xs), "Y", layout, 1, <<>>, <<>>)))
    IN  [h |-> BuildY(ListOf(AllocSets(d, "X", layout, 1, <<>>, <<>>))),
         a |-> d]

-----------------------------------------------------------------------------
(* DeepSensorModel.predict: its arguments, locals and collaborators.       *)

\* a resolution factor: a positive number num/den, in lowest terms
Ratio(num, den) == <<num, den>>
One == Ratio(1, 1)

\* the arguments of predict with the defaults of its signature, and the
\* attributes of the model it reads: whether the model class defines
\* __call__, whether a run of the model draws random numbers, whether
\* task_loader and data_processor are set (not None),
\* task_loader.target_var_IDs, and the spatial coordinates of X_t (the two
\* axes of an xarray object, the two index levels of a pandas one).  tasks
\* is the address of a Task or of a list of Tasks.
NoCoords == [x1 |-> <<>>, x2 |-> <<>>]

DefaultArgs ==
    [tasks |-> 0, X_t |-> "Dataset", X_t_normalised |-> FALSE,
     resolution_factor |-> One, n_samples |-> 0, ar_sample |-> FALSE,
     unnormalise |-> TRUE, seed |-> 0, append_indexes |-> "None",
     has_call |-> FALSE, stochastic |-> FALSE,
     task_loader |-> TRUE, data_processor |-> TRUE,
     target_var_IDs |-> <<>>, coords |-> NoCoords]

\* what a call of the model returned: a list of one array per target set,
\* or one array
NoArray == [list |-> FALSE, a |-> <<>>]

\* the local variables of predict: X_t (its type), mode, tasks (address of
\* the list), dates, X_t_arr (address), the position k of the loop's task
\* among n, whether append_indexes was appended to X_t, dist (the
\* distribution of the last call of the model), mean_arr, std_arr and
\* samples_arr
NoLocals ==
    [X_t |-> "Dataset", mode |-> "none", tasks |-> 0, dates |-> <<>>,
     X_t_arr |-> 0, k |-> 0, n |-> 0, appended |-> FALSE, dist |-> 0,
     mean_arr |-> NoArray, std_arr |-> NoArray, samples_arr |-> NoArray]

\* a random generator: the seed it was last set to (-1: never set) and the
\* numbers drawn from it since
Unseeded == [lab |-> [seed |-> -1, draws |-> 0],
             numpy |-> [seed |-> -1, draws |-> 0]]

\* B.set_random_seed(seed); np.random.seed(seed)
SetSeed(seed) == [lab |-> [seed |-> seed, draws |-> 0],
                  numpy |-> [seed |-> seed, draws |-> 0]]

\* n numbers drawn from generator g
Draw(r, g, n) == [r EXCEPT ![g].draws = @ + n]

\* one variable of a model output over the target points: the statistic, the
\* position k of the task it was computed for, the target set and the
\* variable of that set, the sample (-1: none) and the shape of the target
\* points it was computed at
Plane(stat, k, set, var, sample, shape) ==
    [stat |-> stat, k |-> k, set |-> set, var |-> var, sample |-> sample,
     shape |-> shape]

\* a cell never written
NaN == Plane("nan", 0, 0, 0, -1, <<>>)

\* the cells of a container, by position: variable, sample (0: no sample
\* axis) and time; a cell holds the values at every target point
CellsOf(nv, ns, nt) ==
    (1..nv) \X (IF ns = 0 THEN {0} ELSE 1..ns) \X (1..nt)

\* an output container: whether it is allocated, whether it is an xarray
\* grid or a DataFrame, its variables, its sample coordinate (empty: no
\* sample axis), its time coordinate, the spatial coordinates (the two
\* axes of a grid, the two index levels of a DataFrame), its cells and how
\* it was unnormalised
NoContainer ==
    [alloc |-> FALSE, grid |-> FALSE, vars |-> <<>>, sample |-> <<>>,
     time |-> <<>>, x1 |-> <<>>, x2 |-> <<>>, cells |-> <<>>, unnorm |-> "no"]

EmptyContainer(grid, names, sample, time, x1, x2) ==
    [alloc |-> TRUE, grid |-> grid, vars |-> names, sample |-> sample,
     time |-> time, x1 |-> x1, x2 |-> x2,
     cells |-> [c \in CellsOf(Len(names), Len(sample), Len(time)) |-> NaN],
     unnorm |-> "no"]
NoOut == [mean |-> NoContainer, std |-> NoContainer, samples |-> NoContainer]

\* the state of predict when it is not running
PredictIdle ==
    /\ pc = "idle"
    /\ arg = DefaultArgs
    /\ loc = NoLocals
    /\ rng = Unseeded
    /\ log = <<>>
    /\ out = NoOut
    /\ perr = "none"

-----------------------------------------------------------------------------
(* The caller: it builds a task, applies modify and append_obs_to_task to  *)
(* it and to the tasks they return, and writes into returned tasks.        *)

Flags == {NoneVal, 1}

\* the batches of new observations (X_new, Y_new) the caller appends
Batches ==
    { [x |-> ArrVal(1, << <<71, 72>> >>), y |-> ArrVal(1, << <<73>> >>)],
      [x |-> ArrVal(2, << <<81, 82>>, <<83, 84>> >>),
       y |-> ArrVal(2, << <<85, 86>> >>)],
      [x |-> ArrVal(1, << <<91, 92, 93>> >>), y |-> ArrVal(1, << <<94>> >>)],
      [x |-> ArrVal(1, << <<61, 62>> >>), y |-> ArrVal(2, << <<63>>, <<64>> >>)] }

NoArr == ArrVal(0, <<>>)

NoOp == [name |-> "init", t |-> 0, f |-> "none", flag |-> NoneVal,
         xn |-> NoArr, yn |-> NoArr, idx |-> 0]

InitTask ==
    \E layout \in Layouts, flag \in Flags \cup {NoFlag}, regionArr \in BOOLEAN :
        LET Start(r) ==
                /\ heap = r.h
                /\ pre = r.h
                /\ given = r.a
                /\ live = {r.a}
                /\ cur = r.a
        IN  /\ Start(NewTask(<<>>, layout, 1, 3, flag, regionArr))
            /\ PredictIdle
            /\ res = 0
            /\ err = NoErr
            /\ op = NoOp
            /\ nops = 0
            /\ wrote = FALSE

\* the outcome r of an operation: the heap it leaves, the task it returned
Outcome(r) ==
    /\ heap' = r.h
    /\ pre' = heap
    /\ res' = r.a
    /\ err' = r.err
    /\ live' = (IF r.a = 0 THEN live ELSE live \cup {r.a})
    /\ cur' = (IF r.a = 0 THEN cur ELSE r.a)

\* task2 = task.modify(f, flag)
DoModify ==
    /\ nops < MaxOps
    /\ \E f \in Transforms, flag \in Flags :
        /\ Outcome(Modify(heap, cur, f, flag))
        /\ op' = [NoOp EXCEPT !.name = "modify", !.t = cur, !.f = f,
                                  !.flag = flag]
    /\ nops' = nops + 1
    /\ UNCHANGED <<given, wrote, predictVars>>

\* task2 = append_obs_to_task(task, X_new, Y_new, context_set_idx)
DoAppend ==
    /\ nops < MaxOps
    /\ \E b \in Batches, idx \in -1..Len(heap[Get(heap, cur, "X_c")].refs) :
        /\ Outcome(AppendObs(heap, cur, b.x, b.y, idx))
        /\ op' = [NoOp EXCEPT !.name = "append", !.t = cur, !.xn = b.x,
                                  !.yn = b.y, !.idx = idx]
    /\ nops' = nops + 1
    /\ UNCHANGED <<given, wrote, predictVars>>

\* the writes a caller makes to a task it was returned:
\*   "elem"  task["X_t"][0][0, 0] = -1     (in place, in the array)
\*   "item"  task["X_t"][0] = np.array([[-1]])   (in place, in the list)
\*   "key"   task["time"] = -1             (in place, in the dict)
Writes == {"elem", "item", "key"}

WriteTask(h, t, w) ==
    LET l == Get(h, t, "X_t")
        a == h[l].refs[1]
    IN  CASE w = "elem" -> [h EXCEPT ![a].data = [@ EXCEPT ![1] = [@ EXCEPT ![1] = -1]]]
          [] w = "item" -> SetItem(Append(h, Arr(2, << <<-1>> >>)), l, 1, Len(h) + 1)
          [] w = "key" -> SetKey(Append(h, Val(-1)), t, "time", Len(h) + 1)

DoWrite ==
    /\ ~wrote
    /\ \E t \in live \ {given}, w \in Writes :
        /\ heap' = WriteTask(heap, t, w)
        /\ pre' = heap
        /\ op' = [NoOp EXCEPT !.name = "write", !.t = t, !.f = w]
    /\ res' = 0
    /\ err' = NoErr
    /\ wrote' = TRUE
    /\ UNCHANGED <<given, live, cur, nops, predictVars>>

Init == InitTask

Next == DoModify \/ DoAppend \/ DoWrite

Spec == Init /\ [][Next]_vars

-----------------------------------------------------------------------------
(* Properties of the Task container.                                       *)

\* the context set the last append addressed, before and after it
OldSet(k) == pre[pre[Get(pre, op.t, k)].refs[op.idx + 1]]
NewSet(k) == heap[heap[Get(heap, res, k)].refs[op.idx + 1]]

Appended == op.name = "append" /\ err.type = "none"

\* element (r, c) of a batch once a 1-D batch is a column
BatchAt(v, r, c) == IF v.nd = 1 THEN v.data[1][r] ELSE v.data[r][c]
BatchSize(v) == IF v.nd = 1 THEN 1 ELSE Len(v.data[1])

Extended(old, new, v) ==
    /\ new.kind = "arr" /\ new.nd = 2
    /\ Len(new.data) = Len(old.data)
    /\ \A r \in 1..Len(old.data) :
        /\ Len(new.data[r]) = Len(old.data[r]) + BatchSize(v)
        /\ \A c \in 1..Len(old.data[r]) : new.data[r][c] = old.data[r][c]
        /\ \A c \in 1..BatchSize(v) :
              new.data[r][Len(old.data[r]) + c] = BatchAt(v, r, c)

\* C1: append_obs_to_task on an in-range ungridded set returns a task whose
\* X_c[i] and Y_c[i] have exactly k more observations along the last axis,
\* the first ones those of the given task in the same order and the last k
\* the new data, a 1-D batch being taken as one column.
C1_AppendExtends ==
    Appended =>
        /\ Extended(OldSet("X_c"), NewSet("X_c"), op.xn)
        /\ Extended(OldSet("Y_c"), NewSet("Y_c"), op.yn)

C1_Witness ==
    /\ Appended
    /\ op.idx = 1
    /\ op.xn.nd = 1
    /\ Len(OldSet("X_c").data[1]) = 2
    /\ Len(NewSet("X_c").data[1]) = 3

\* the tasks the caller held before the last operation, but for the one it
\* wrote into itself
Untouched == {a \in live : a <= Len(pre) /\ ~(op.name = "write" /\ a = op.t)}

\* C2: modify and append_obs_to_task leave every field of the task they are
\* given (and of every other task) as it was, whether they return or raise;
\* a later write into a returned task shows in no other task; and the result
\* of append_obs_to_task differs from the given task in X_c[idx] and
\* Y_c[idx] alone.
C2_OriginalUnchanged ==
    /\ \A a \in Untouched : DeepEq(heap, a, pre, a)
    /\ Appended =>
        /\ \A i \in 1..Len(Keys) :
              Keys[i] \notin {"X_c", "Y_c"} =>
                  DeepEq(heap, heap[res].refs[i], pre, pre[op.t].refs[i])
        /\ \A k \in {"X_c", "Y_c"} :
              /\ heap[Get(heap, res, k)].kind = "list"
              /\ Len(heap[Get(heap, res, k)].refs) = Len(pre[Get(pre, op.t, k)].refs)
              /\ \A j \in 1..Len(pre[Get(pre, op.t, k)].refs) :
                    j # op.idx + 1 =>
                        DeepEq(heap, heap[Get(heap, res, k)].refs[j],
                               pre, pre[Get(pre, op.t, k)].refs[j])

C2_Witness ==
    /\ op.name = "write"
    /\ op.f = "elem"
    /\ op.t # given
    /\ heap[heap[Get(heap, op.t, "X_t")].refs[1]].data[1][1] = -1
    /\ heap[heap[Get(heap, given, "X_t")].refs[1]].data[1][1] = 1

\* the number of context sets of the task the last operation was given
NSets == Len(pre[Get(pre, op.t, "X_c")].refs)

\* C3: append_obs_to_task with an index below 0 or above len(X_c) - 1 raises
\* the index error carrying that index and the number of context sets, and
\* returns no task.
C3_IndexOutOfRange ==
    (op.name = "append" /\ (op.idx < 0 \/ op.idx >= NSets)) =>
        /\ err = [type |-> "TaskSetIndexError", idx |-> op.idx, n |-> NSets]
        /\ res = 0

C3_Witness ==
    /\ op.name = "append"
    /\ op.idx = -1
    /\ NSets = 2
    /\ err.type = "TaskSetIndexError"

\* C4: append_obs_to_task addressed to a gridded context set (X_c[idx] a
\* pair of axes) raises the gridded-data error and returns no task.
C4_GriddedNotAppendable ==
    (/\ op.name = "append"
     /\ op.idx >= 0 /\ op.idx < NSets
     /\ pre[pre[Get(pre, op.t, "X_c")].refs[op.idx + 1]].kind = "tuple") =>
        /\ err.type = "GriddedDataError"
        /\ res = 0

C4_Witness ==
    /\ op.name = "append"
    /\ op.idx = 1
    /\ err.type = "GriddedDataError"

IdentityModified ==
    op.name = "modify" /\ op.f = "identity" /\ op.flag = NoneVal /\ err.type = "none"

\* C5 as stated: t.modify(identity, None) equals t under every key, flag
\* included.
C5_IdentityEqual == IdentityModified => DeepEq(heap, res, pre, op.t)

\* C5: t.modify(identity, None) equals t under every key but flag, and its
\* flag is None.
C5_IdentityEqualButFlag ==
    IdentityModified =>
        /\ heap[res].kind = "dict"
        /\ \A i \in 1..Len(Keys) :
              Keys[i] # "flag" =>
                  DeepEq(heap, heap[res].refs[i], pre, pre[op.t].refs[i])
        /\ Get(heap, res, "flag") # 0
        /\ heap[Get(heap, res, "flag")] = Val(NoneVal)

C5_Witness ==
    /\ IdentityModified
    /\ Get(pre, op.t, "flag") # 0
    /\ pre[Get(pre, op.t, "flag")] = Val(1)
    /\ Len(pre[Get(pre, op.t, "X_c")].refs) = 2

\* what transform f makes of the array rows d
Image(f, d, e) ==
    /\ Len(e) = Len(d)
    /\ \A i \in 1..Len(d) :
        /\ Len(e[i]) = Len(d[i])
        /\ \A j \in 1..Len(d[i]) :
              e[i][j] = (IF f = "add_one" THEN d[i][j] + 1 ELSE d[i][j])

\* the value at a1 of h1 is the value at a2 of h2 with f applied to every
\* array leaf, the lists and pairs kept
RECURSIVE Transformed(_, _, _, _, _)
Transformed(h1, a1, h2, a2, f) ==
    IF a1 = 0 \/ a2 = 0 THEN a1 = a2
    ELSE LET o1 == h1[a1]
             o2 == h2[a2]
         IN  /\ o1.kind = o2.kind
             /\ o1.nd = o2.nd
             /\ IF o2.kind = "arr" THEN Image(f, o2.data, o1.data)
                                   ELSE o1.data = o2.data
             /\ Len(o1.refs) = Len(o2.refs)
             /\ \A i \in 1..Len(o1.refs) :
                    Transformed(h1, o1.refs[i], h2, o2.refs[i], f)

Modified == op.name = "modify" /\ err.type = "none"

\* C6 as stated: modify applies f to the array leaves under X_c, Y_c and
\* X_t, passes every other field but flag through unchanged, and sets flag.
C6_OnlyDataTransformed ==
    Modified =>
        /\ \A i \in 1..Len(Keys) :
              IF Keys[i] \in {"X_c", "Y_c", "X_t"}
              THEN Transformed(heap, heap[res].refs[i], pre, pre[op.t].refs[i], op.f)
              ELSE Keys[i] # "flag" =>
                      DeepEq(heap, heap[res].refs[i], pre, pre[op.t].refs[i])
        /\ heap[Get(heap, res, "flag")] = Val(op.flag)

\* C6: modify applies f to the array leaves under every key but the three
\* station-ID keys (X_c, Y_c, X_t, and a metadata field that holds arrays),
\* keeping lists and pairs; the station-ID fields and the fields that hold no
\* array are passed through unchanged; flag is the supplied tag.
C6_ArraysTransformed ==
    Modified =>
        /\ \A i \in 1..Len(Keys) :
              IF Keys[i] \in {"context_station_IDs", "target_station_IDs",
                              "target_station_IDs_heldout"}
              THEN DeepEq(heap, heap[res].refs[i], pre, pre[op.t].refs[i])
              ELSE Keys[i] # "flag" =>
                      Transformed(heap, heap[res].refs[i], pre, pre[op.t].refs[i], op.f)
        /\ Get(heap, res, "flag") # 0
        /\ heap[Get(heap, res, "flag")] = Val(op.flag)

C6_Witness ==
    /\ Modified
    /\ op.f = "add_one"
    /\ op.flag = 1
    /\ pre[Get(pre, op.t, "region")].kind = "arr"
    /\ heap[Get(heap, res, "region")].data = << <<1, 2, 1, 2>> >>
    /\ Len(pre[Get(pre, op.t, "X_c")].refs) = 2
    /\ pre[pre[Get(pre, op.t, "X_c")].refs[1]].kind = "tuple"

-----------------------------------------------------------------------------
(* DeepSensorModel.predict, statement by statement.  An argument, or an    *)
(* attribute of the model, is drawn where predict first reads it, and kept *)
(* in arg from then on.                                                    *)

\* the types of X_t a caller passes (a list stands for any other type)
TargetKinds == {"Dataset", "DataFrame", "Index", "ndarray", "list"}

IsXarray(x) == x \in {"DataArray", "Dataset"}
IsPandas(x) == x \in {"DataFrame", "Series", "Index"}
IsPandasOrArray(x) == x \in {"DataFrame", "Series", "Index", "ndarray"}

\* 0.5, 1 and 2
ResolutionFactors == {Ratio(1, 2), One, Ratio(2, 1)}
Seeds == {0, 1}

\* append_indexes: None, or a dict whose values have the length of X_t, or
\* one with a value of another length
AppendOptions == {"None", "same_length", "other_length"}

\* task_loader.target_var_IDs: one group of variable IDs per target set
VarIDOptions ==
    { << <<"t2m">> >>, << <<"t2m">>, <<"wind">> >>, << <<"t2m">>, <<"t2m">> >>,
      << <<"t2m", "rh">>, <<"wind">> >> }

\* [var_ID for set in self.task_loader.target_var_IDs for var_ID in set]
RECURSIVE Flatten(_)
Flatten(groups) ==
    IF groups = <<>> THEN <<>> ELSE Head(groups) \o Flatten(Tail(groups))

InvalidModeErrors ==
    {"invalid-mode-option: resolution_factor", "invalid-mode-option: append_indexes"}

ValidationErrors ==
    InvalidModeErrors \cup
    {"unsupported-target-location-type", "mismatched-append-index-length",
     "duplicate-variable-name", "non-uniform-grid"}

ModelEvents == {"call", "mean", "stddev", "sample", "ar_sample"}

\* an entry of the log: the call made, the position of the task it is made
\* for (0: none), what it is given ("task": the Task at address obj, "dist":
\* the distribution obj), and the generators as the call finds them
Event(ev, k, on, obj, r) == [ev |-> ev, k |-> k, on |-> on, obj |-> obj, rng |-> r]

\* (np.ndarray left out of the types that take append_indexes)
CheckModeNoArray(x, rf, ai) ==
    IF ~IsXarray(x) /\ rf # One THEN "invalid-mode-option: resolution_factor"
    ELSE IF ~IsPandas(x) /\ ai # "None"
    THEN "invalid-mode-option: append_indexes"
    ELSE "none"

\* the two checks that open predict
CheckMode(x, rf, ai) ==
    IF ~IsXarray(x) /\ rf # One THEN "invalid-mode-option: resolution_factor"
    ELSE IF ~IsPandasOrArray(x) /\ ai # "None"
    THEN "invalid-mode-option: append_indexes"
    ELSE "none"

\* the checks of create_empty_spatiotemporal_xarray, made before it builds
\* the dataset `which` ("none": the dataset is built)
NoDuplicates(names) ==
    \A i, j \in 1..Len(names) : names[i] = names[j] => i = j

\* (the first dataset built unchecked)
CreateEmptyCheckLate(which, names, uniform) ==
    IF which = "mean" THEN "none"
    ELSE IF ~NoDuplicates(names) THEN "duplicate-variable-name"
    ELSE IF ~uniform THEN "non-uniform-grid"
    ELSE "none"

CreateEmptyCheck(which, names, uniform) ==
    IF ~NoDuplicates(names) THEN "duplicate-variable-name"
    ELSE IF ~uniform THEN "non-uniform-grid"
    ELSE "none"

\* np.diff(x)
Diff(x) == [i \in 1..(Len(x) - 1) |-> x[i + 1] - x[i]]

\* np.allclose(np.diff(x), np.diff(x)[0]), for an axis of two points or more
IsUniform(x) == \A i \in 1..(Len(x) - 1) : Diff(x)[i] = Diff(x)[1]

\* np.diff(x)[0] of an axis of fewer than two points
NoSpacing(x) == Len(x) < 2

\* np.arange(n)
Arange(n) == [i \in 1..n |-> i - 1]

\* np.linspace(start, stop, num): num points from start in equal steps, the
\* last of them stop when there are two or more; coordinates are held in
\* whole units of the precision
Linspace(start, stop, num) ==
    [i \in 1..num |->
        IF i = num /\ num > 1 THEN stop
        ELSE start + ((stop - start) * (i - 1)) \div (IF num > 1 THEN num - 1 ELSE 1)]

\* int(x_raw.size * resolution_factor)
NumPoints(size, rf) == (size * rf[1]) \div rf[2]

\* lines 51-66: the axis predicted on
PredictAxis(x_raw, rf) ==
    IF rf = One THEN x_raw
    ELSE Linspace(x_raw[1], x_raw[Len(x_raw)], NumPoints(Len(x_raw), rf))

\* create_empty_spatiotemporal_xarray(X, dates, resolution_factor,
\* data_vars=names), with prepend_coords={"sample": np.arange(n_samples)}
\* when n_samples >= 1, for the dataset `which`: the error raised ("none":
\* none) and the dataset
CreateEmpty(which, X, dates, rf, names, n_samples) ==
    LET spacing == IF NoSpacing(X.x1) THEN "IndexError"
                   ELSE IF ~IsUniform(X.x1) THEN "non-uniform-grid"
                   ELSE IF NoSpacing(X.x2) THEN "IndexError"
                   ELSE "none"
        e == IF spacing = "IndexError" /\ NoDuplicates(names) THEN "IndexError"
             ELSE CreateEmptyCheck(which, names,
                                   spacing = "none" /\ IsUniform(X.x2))
    IN  [err |-> e,
         ds |-> IF e # "none" THEN NoContainer
                ELSE EmptyContainer(TRUE, names, Arange(n_samples), dates,
                                    PredictAxis(X.x1, rf), PredictAxis(X.x2, rf))]

\* (the tasks used as they are)
PredictCopyNone(h, t) == [h |-> h, a |-> t]

\* tasks = copy.deepcopy(tasks)
PredictCopy(h, t) == DeepCopy(h, t)

\* (the seed set before the loop only)
ReseedSkipped(r, n_samples, seed) == r

\* if n_samples >= 1: B.set_random_seed(seed); np.random.seed(seed)
Reseed(r, n_samples, seed) == IF n_samples >= 1 THEN SetSeed(seed) ELSE r

\* the tasks of the caller: n tasks of nT target sets each, the task at
\* position j of time j
RECURSIVE NewTasks(_, _, _, _, _)
NewTasks(h, n, nT, j, refs) ==
    IF j > n THEN [h |-> h, refs |-> refs]
    ELSE LET Rest(r) == NewTasks(r.h, n, nT, j + 1, Append(refs, r.a))
         IN  Rest(NewTask(h, <<"u">>, nT, j, NoneVal, FALSE))

\* the tasks predict was called with, and the address of the task at k
CallerTasks ==
    IF arg.tasks = 0 THEN {}
    ELSE IF pre[arg.tasks].kind = "dict" THEN {arg.tasks}
    ELSE {pre[arg.tasks].refs[j] : j \in 1..Len(pre[arg.tasks].refs)}

TaskAt(h, k) == h[loc.tasks].refs[k]

\* task["time"]
TimeOf(h, t) == h[Get(h, t, "time")].data[1][1]

\* [task["time"] for task in tasks]
Dates(h, tasks) ==
    [j \in 1..Len(h[tasks].refs) |-> TimeOf(h, h[tasks].refs[j])]

\* a caller calls predict with one Task or with a list of Tasks
InitPredict ==
    /\ \E ids \in VarIDOptions, n \in 1..MaxTasks, single \in BOOLEAN :
        /\ single => n = 1
        /\ LET Start(r) ==
                /\ heap = (IF single THEN r.h ELSE Append(r.h, ListObj(r.refs)))
                /\ pre = heap
                /\ arg = [DefaultArgs EXCEPT
                            !.tasks = (IF single THEN r.refs[1] ELSE Len(r.h) + 1),
                            !.target_var_IDs = ids]
           IN  Start(NewTasks(<<>>, n, Len(ids), 1, <<>>))
    /\ pc = "check_mode"
    /\ loc = NoLocals
    /\ rng = Unseeded
    /\ log = <<>>
    /\ out = NoOut
    /\ perr = "none"
    /\ given = 0 /\ live = {} /\ cur = 0 /\ res = 0 /\ err = NoErr
    /\ op = NoOp /\ nops = 0 /\ wrote = FALSE

\* raise
Fails(e) == pc' = "error" /\ perr' = e

\* lines 240-249
PCheckMode ==
    /\ pc = "check_mode"
    /\ \E x \in TargetKinds, rf \in ResolutionFactors, ai \in AppendOptions :
        /\ arg' = [arg EXCEPT !.X_t = x, !.resolution_factor = rf,
                              !.append_indexes = ai]
        /\ loc' = [loc EXCEPT !.X_t = x]
        /\ perr' = CheckMode(x, rf, ai)
        /\ pc' = (IF perr' = "none" THEN "setup" ELSE "error")
    /\ UNCHANGED <<heap, pre, taskVars, rng, log, out>>

\* lines 251-263: a single Task is put in a list, the generators are seeded
\* if samples are asked for, the variable IDs are read from task_loader
PSetup ==
    /\ pc = "setup"
    /\ \E n \in 0..MaxSamples, seed \in Seeds, tl \in BOOLEAN :
        /\ n = 0 => seed = 0
        /\ arg' = [arg EXCEPT !.n_samples = n, !.seed = seed, !.task_loader = tl]
        /\ rng' = Reseed(rng, n, seed)
        /\ log' = (IF n >= 1 THEN Append(log, Event("seed", 0, "", 0, rng)) ELSE log)
        /\ IF tl THEN pc' = "wrap" /\ perr' = perr ELSE Fails("AttributeError")
    /\ IF heap[arg.tasks].kind = "dict"
       THEN /\ heap' = Append(heap, ListObj(<<arg.tasks>>))
            /\ loc' = [loc EXCEPT !.tasks = Len(heap) + 1, !.n = 1,
                                  !.dates = <<TimeOf(heap, arg.tasks)>>]
       ELSE /\ heap' = heap
            /\ loc' = [loc EXCEPT !.tasks = arg.tasks,
                                  !.n = Len(heap[arg.tasks].refs),
                                  !.dates = Dates(heap, arg.tasks)]
    /\ UNCHANGED <<pre, taskVars, out>>

\* lines 265-277: an Index or a coordinate array becomes a DataFrame, and
\* X_t is normalised with data_processor.map_coords, which may reject a
\* value of a type it does not know
PWrap ==
    /\ pc = "wrap"
    /\ \E norm \in BOOLEAN, dp \in BOOLEAN, rejects \in BOOLEAN :
        /\ rejects => (loc.X_t = "list" /\ ~norm /\ dp)
        /\ arg' = [arg EXCEPT !.X_t_normalised = norm, !.data_processor = dp]
        /\ IF ~norm /\ ~dp THEN Fails("AttributeError") /\ loc' = loc
           ELSE IF rejects THEN Fails("map_coords") /\ loc' = loc
           ELSE /\ pc' = "mode"
                /\ perr' = perr
                /\ loc' = [loc EXCEPT !.X_t = (IF @ \in {"Index", "ndarray"}
                                               THEN "DataFrame" ELSE @)]
    /\ UNCHANGED <<heap, pre, taskVars, rng, log, out>>

\* lines 279-297
PMode ==
    /\ pc = "mode"
    /\ IF IsXarray(loc.X_t)
       THEN pc' = "alloc_mean" /\ perr' = perr /\ loc' = [loc EXCEPT !.mode = "on-grid"]
       ELSE IF IsPandas(loc.X_t)
       THEN IF arg.append_indexes = "other_length"
            THEN Fails("mismatched-append-index-length") /\ loc' = loc
            ELSE /\ pc' = "alloc_mean"
                 /\ perr' = perr
                 /\ loc' = [loc EXCEPT !.mode = "off-grid",
                                !.appended = (arg.append_indexes # "None")]
       ELSE Fails("unsupported-target-location-type") /\ loc' = loc
    /\ UNCHANGED <<heap, pre, taskVars, arg, rng, log, out>>

\* the coordinates of the X_t a caller passes: a grid of 3 by 2 points, one
\* whose first axis is not uniformly spaced, and two off-grid points
Grids == { [x1 |-> <<0, 12, 24>>, x2 |-> <<0, 12>>],
           [x1 |-> <<0, 12, 36>>, x2 |-> <<0, 12>>] }
Points == [x1 |-> <<5, 6>>, x2 |-> <<7, 8>>]

\* the container `which` built: an xarray dataset made by
\* create_empty_spatiotemporal_xarray (on-grid), a DataFrame indexed by
\* time and the index of X_t, with a sample level before them when samples
\* are drawn (off-grid)
Allocate(which, X, n_samples, next) ==
    LET Built(r) ==
            IF r.err # "none" THEN Fails(r.err) /\ UNCHANGED <<out, log>>
            ELSE /\ pc' = next
                 /\ perr' = perr
                 /\ out' = [out EXCEPT ![which] = r.ds]
                 /\ log' = Append(log, Event("alloc", 0, which, 0, rng))
    IN  Built(IF loc.mode = "on-grid"
              THEN CreateEmpty(which, X, loc.dates, arg.resolution_factor,
                               Flatten(arg.target_var_IDs), n_samples)
              ELSE [err |-> "none",
                    ds |-> EmptyContainer(FALSE, Flatten(arg.target_var_IDs),
                                          Arange(n_samples), loc.dates,
                                          X.x1, X.x2)])

\* lines 300-302, 322
PAllocMean ==
    /\ pc = "alloc_mean"
    /\ \E X \in (IF loc.mode = "on-grid" THEN Grids ELSE {Points}) :
        /\ arg' = [arg EXCEPT !.coords = X]
        /\ Allocate("mean", X, 0, "alloc_std")
    /\ UNCHANGED <<heap, pre, taskVars, loc, rng>>

\* lines 303-305, 323
PAllocStd ==
    /\ pc = "alloc_std"
    /\ Allocate("std", arg.coords, 0,
                IF arg.n_samples >= 1 THEN "alloc_samples" ELSE "copy")
    /\ UNCHANGED <<heap, pre, taskVars, arg, loc, rng>>

\* lines 306-314, 324-334
PAllocSamples ==
    /\ pc = "alloc_samples"
    /\ Allocate("samples", arg.coords, arg.n_samples, "copy")
    /\ UNCHANGED <<heap, pre, taskVars, arg, loc, rng>>

\* lines 316, 336, 339: X_t_arr is the pair of the axes of mean (on-grid) or
\* the coordinate array of the index of X_t (off-grid); the tasks are copied
PCopy ==
    /\ pc = "copy"
    /\ LET h == IF loc.mode = "on-grid"
                THEN heap \o <<Arr(1, <<out.mean.x1>>), Arr(1, <<out.mean.x2>>),
                               TupleObj(<<Len(heap) + 1, Len(heap) + 2>>)>>
                ELSE Append(heap, Arr(2, <<arg.coords.x1, arg.coords.x2>>))
           Copied(c) ==
                /\ heap' = c.h
                /\ loc' = [loc EXCEPT !.X_t_arr = Len(h), !.tasks = c.a, !.k = 1]
       IN  Copied(PredictCopy(h, loc.tasks))
    /\ pc' = "overwrite"
    /\ UNCHANGED <<pre, taskVars, arg, rng, log, out, perr>>

\* lines 342, 347: task["X_t"] = [X_t_arr for _ in range(len(task["X_t"]))]
POverwrite ==
    /\ pc = "overwrite"
    /\ LET t == TaskAt(heap, loc.k)
           nT == Len(heap[Get(heap, t, "X_t")].refs)
       IN  /\ heap' = SetKey(Append(heap, ListObj([j \in 1..nT |-> loc.X_t_arr])),
                             t, "X_t", Len(heap) + 1)
           /\ log' = Append(log, Event("overwrite", loc.k, "task", t, rng))
    /\ \E hc \in BOOLEAN, st \in BOOLEAN :
        /\ loc.k > 1 => (hc = arg.has_call /\ st = arg.stochastic)
        /\ arg' = [arg EXCEPT !.has_call = hc, !.stochastic = st]
        /\ pc' = (IF hc THEN "call" ELSE "mean")
    /\ UNCHANGED <<pre, taskVars, loc, rng, out, perr>>

\* the shape of the target points at address a: a pair of axes, or an
\* array of two rows of coordinates
TargetShape(h, a) ==
    IF h[a].kind = "tuple"
    THEN <<Len(h[h[a].refs[1]].data[1]), Len(h[h[a].refs[2]].data[1])>>
    ELSE <<Len(h[a].data[1])>>

\* what the model computes for target set i of task t: an array of one
\* plane per variable of the set, over the target points task["X_t"][i]
SetArray(stat, h, t, k, ids, i, sample) ==
    [j \in 1..Len(ids[i]) |->
        Plane(stat, k, i, j, sample,
              TargetShape(h, h[Get(h, t, "X_t")].refs[i]))]

\* a model of several target sets returns a list of arrays, one per target
\* set; a model of one target set returns the array
ReturnsList(ids) == Len(ids) >= 2

\* mean or stddev of task t
ModelOutput(stat, h, t, k, ids) ==
    IF ReturnsList(ids)
    THEN [list |-> TRUE,
          a |-> [i \in 1..Len(ids) |-> SetArray(stat, h, t, k, ids, i, -1)]]
    ELSE [list |-> FALSE, a |-> SetArray(stat, h, t, k, ids, 1, -1)]

\* sample(..., n_samples=n), and ar_sample once reshaped to
\* (n_samples, *mean_arr.shape): arrays whose first axis is the sample
ModelSamples(h, t, k, ids, n) ==
    IF ReturnsList(ids)
    THEN [list |-> TRUE,
          a |-> [i \in 1..Len(ids) |->
                    [s \in 1..n |-> SetArray("sample", h, t, k, ids, i, s - 1)]]]
    ELSE [list |-> FALSE,
          a |-> [s \in 1..n |-> SetArray("sample", h, t, k, ids, 1, s - 1)]]

\* a run of the model, which draws a random number if it is stochastic
ModelRun(ev, on, next) ==
    /\ rng' = Draw(rng, "lab", IF arg.stochastic THEN 1 ELSE 0)
    /\ log' = Append(log, Event(ev, loc.k, on,
                                IF on = "task" THEN TaskAt(heap, loc.k) ELSE loc.dist,
                                rng))
    /\ pc' = next

\* a call given the distribution, which runs nothing
DistRun(ev, next) ==
    /\ rng' = rng
    /\ log' = Append(log, Event(ev, loc.k, "dist", loc.dist, rng))
    /\ pc' = next

\* line 349: dist = self(task, n_samples=n_samples)
PCall ==
    /\ pc = "call"
    /\ ModelRun("call", "task", "mean")
    /\ loc' = [loc EXCEPT !.dist = Len(log) + 1]
    /\ UNCHANGED <<heap, pre, taskVars, arg, out, perr>>

\* lines 350, 366: self.mean(dist) or self.mean(task)
PMean ==
    /\ pc = "mean"
    /\ IF arg.has_call THEN DistRun("mean", "stddev")
       ELSE ModelRun("mean", "task", "stddev")
    /\ loc' = [loc EXCEPT !.mean_arr =
                ModelOutput("mean", heap, TaskAt(heap, loc.k), loc.k,
                            arg.target_var_IDs)]
    /\ UNCHANGED <<heap, pre, taskVars, arg, out, perr>>

\* lines 351, 367: self.stddev(dist) or self.stddev(task)
PStddev ==
    /\ pc = "stddev"
    /\ LET next == IF arg.n_samples >= 1 THEN "reseed" ELSE "write"
       IN  IF arg.has_call THEN DistRun("stddev", next)
           ELSE ModelRun("stddev", "task", next)
    /\ loc' = [loc EXCEPT !.std_arr =
                ModelOutput("std", heap, TaskAt(heap, loc.k), loc.k,
                            arg.target_var_IDs)]
    /\ UNCHANGED <<heap, pre, taskVars, arg, out, perr>>

\* lines 352-354, 368-370
PReseed ==
    /\ pc = "reseed"
    /\ rng' = Reseed(rng, arg.n_samples, arg.seed)
    /\ log' = Append(log, Event("seed", loc.k, "", 0, rng))
    /\ pc' = "sample"
    /\ UNCHANGED <<heap, pre, taskVars, arg, loc, out, perr>>

\* (ar_sample given the distribution)
SampledOnDist(ar, has_call) == IF has_call THEN "dist" ELSE "task"

\* lines 355-363, 371-379: what the sampling call is given: ar_sample the
\* task, sample the distribution or the task
SampledOn(ar, has_call) == IF ~ar /\ has_call THEN "dist" ELSE "task"

\* lines 355-363, 371-379: a model that does not implement the call raises;
\* the reshape of what ar_sample returns reads mean_arr.shape, which a list
\* does not have
PSample ==
    /\ pc = "sample"
    /\ \E ar \in BOOLEAN, raises \in BOOLEAN :
        /\ loc.k > 1 => ar = arg.ar_sample
        /\ arg' = [arg EXCEPT !.ar_sample = ar]
        /\ LET on == SampledOn(ar, arg.has_call)
           IN  log' = Append(log,
                        Event(IF ar THEN "ar_sample" ELSE "sample", loc.k, on,
                              IF on = "task" THEN TaskAt(heap, loc.k) ELSE loc.dist,
                              rng))
        /\ IF raises THEN Fails("NotImplementedError") /\ rng' = rng /\ loc' = loc
           ELSE /\ rng' = (IF ar THEN Draw(Draw(rng, "lab", arg.n_samples), "numpy", 1)
                           ELSE Draw(rng, "lab", arg.n_samples))
                /\ IF ar /\ loc.mean_arr.list
                   THEN Fails("AttributeError") /\ loc' = loc
                   ELSE /\ pc' = "write"
                        /\ perr' = perr
                        /\ loc' = [loc EXCEPT !.samples_arr =
                                    ModelSamples(heap, TaskAt(heap, loc.k), loc.k,
                                                 arg.target_var_IDs, arg.n_samples)]
    /\ UNCHANGED <<heap, pre, taskVars, out>>

\* whether arrays agree in every axis but the first
SameTrailing(arrs) ==
    \A i, j \in 1..Len(arrs) :
        \A m \in 1..Len(arrs[i]), n \in 1..Len(arrs[j]) :
            Len(arrs[i][m]) = Len(arrs[j][n])

\* line 386: np.concatenate(samples_arr, axis=0) joins the arrays along their
\* first axis, the samples
ConcatSamples(arrs) == Flatten(arrs)

\* lines 381-386: the arrays of a list are joined along their first axis,
\* which raises when they differ in another axis
ConcatTargets(mean_arr, std_arr, samples_arr, n_samples) ==
    IF ~mean_arr.list
    THEN [err |-> "none", mean |-> mean_arr.a, std |-> std_arr.a,
          samples |-> samples_arr.a]
    ELSE IF n_samples >= 1 /\ ~SameTrailing(samples_arr.a)
    THEN [err |-> "ValueError", mean |-> <<>>, std |-> <<>>, samples |-> <<>>]
    ELSE [err |-> "none", mean |-> Flatten(mean_arr.a), std |-> Flatten(std_arr.a),
          samples |-> IF n_samples >= 1 THEN ConcatSamples(samples_arr.a)
                      ELSE samples_arr.a]

\* the shape of the target points of a container
PlaneShape(c) == IF c.grid THEN <<Len(c.x1), Len(c.x2)>> ELSE <<Len(c.x1)>>

\* (the entries of time up to the task's)
TimeSliceUpTo(c, time) == {t \in 1..Len(c.time) : c.time[t] <= time}

\* the entries of the time coordinate that a label addresses
TimeSlice(c, time) == {t \in 1..Len(c.time) : c.time[t] = time}

\* c.loc[:, time, :, :] = value, c.loc[:, sample, time, :, :] = value
\* (a grid) and c.loc[time] = value.T, c.loc[sample, time] = value.T (a
\* DataFrame), sample -1 standing for no sample: the cells of every
\* variable at the entries addressed are assigned the planes of value, a
\* value of one variable given to each variable; strict: an assignment to
\* a DataFrame that does not take a value of one variable for several
Assign(c, sample, time, value, strict) ==
    LET nv == Len(c.vars)
        T == TimeSlice(c, time)
        S == IF sample = -1 THEN {0}
             ELSE {i \in 1..Len(c.sample) : c.sample[i] = sample}
    IN  IF T = {} \/ S = {} THEN [err |-> "KeyError", c |-> c]
        ELSE IF \/ Len(value) \notin {nv, 1}
                \/ (Len(value) # nv /\ strict)
                \/ \E j \in 1..Len(value) : value[j].shape # PlaneShape(c)
        THEN [err |-> "ValueError", c |-> c]
        ELSE [err |-> "none",
              c |-> [c EXCEPT !.cells =
                        [x \in DOMAIN @ |->
                            IF x[2] \in S /\ x[3] \in T
                            THEN value[IF Len(value) = nv THEN x[1] ELSE 1]
                            ELSE @[x]]]]

\* lines 392-395, 401-402: for sample_i in range(n_samples)
RECURSIVE AssignSamples(_, _, _, _, _, _)
AssignSamples(c, sample_i, n_samples, time, samples_arr, strict) ==
    IF sample_i >= n_samples THEN [err |-> "none", c |-> c]
    ELSE LET Rest(r) ==
                IF r.err # "none" THEN r
                ELSE AssignSamples(r.c, sample_i + 1, n_samples, time,
                                   samples_arr, strict)
         IN  Rest(Assign(c, sample_i, time, samples_arr[sample_i + 1], strict))

\* (std and samples left unwritten)
WriteSlicesMeanOnly(o, arrs, n_samples, time, strict) ==
    LET Done(r) == [err |-> r.err, out |-> [o EXCEPT !.mean = r.c]]
    IN  Done(Assign(o.mean, -1, time, arrs.mean, strict))

\* lines 388-402: the writes for a task of time `time`; a write that raises
\* leaves the writes before it done
WriteSlices(o, arrs, n_samples, time, strict) ==
    LET Samples(o2) ==
            LET Done(r) == [err |-> r.err, out |-> [o2 EXCEPT !.samples = r.c]]
            IN  IF n_samples >= 1
                THEN Done(AssignSamples(o2.samples, 0, n_samples, time,
                                        arrs.samples, strict))
                ELSE [err |-> "none", out |-> o2]
        Std(o1) ==
            LET Done(r) == IF r.err # "none" THEN [err |-> r.err, out |-> o1]
                           ELSE Samples([o1 EXCEPT !.std = r.c])
            IN  Done(Assign(o1.std, -1, time, arrs.std, strict))
        Mean(r) == IF r.err # "none" THEN [err |-> r.err, out |-> o]
                   ELSE Std([o EXCEPT !.mean = r.c])
    IN  Mean(Assign(o.mean, -1, time, arrs.mean, strict))

\* lines 381-402: the arrays of a multi-target model are concatenated and
\* the slices of the task's time are written
PWrite ==
    /\ pc = "write"
    /\ \E strict \in BOOLEAN :
        /\ strict => loc.mode = "off-grid"
        /\ LET Written(r) ==
                    /\ out' = r.out
                    /\ IF r.err # "none" THEN Fails(r.err) /\ loc' = loc
                       ELSE /\ perr' = perr
                            /\ IF loc.k < loc.n
                               THEN pc' = "overwrite" /\ loc' = [loc EXCEPT !.k = @ + 1]
                               ELSE pc' = "finish" /\ loc' = loc
               Joined(arrs) ==
                    IF arrs.err # "none"
                    THEN Fails(arrs.err) /\ loc' = loc /\ out' = out
                    ELSE Written(WriteSlices(out, arrs, arg.n_samples,
                                             TimeOf(heap, TaskAt(heap, loc.k)),
                                             strict))
           IN  Joined(ConcatTargets(loc.mean_arr, loc.std_arr, loc.samples_arr,
                                    arg.n_samples))
    /\ log' = Append(log, Event("write", loc.k, "", 0, rng))
    /\ UNCHANGED <<heap, pre, taskVars, arg, rng>>

\* data_processor.unnormalise(c, add_offset)
Unnormalise(c, add_offset) ==
    [c EXCEPT !.unnorm = IF add_offset THEN "scale and offset" ELSE "scale"]

\* (std unnormalised like mean)
UnnormaliseStdOffset(c) == Unnormalise(c, TRUE)

\* line 416: self.data_processor.unnormalise(std, add_offset=False)
UnnormaliseStd(c) == Unnormalise(c, FALSE)

\* lines 404-427
PFinish ==
    /\ pc = "finish"
    /\ \E un \in BOOLEAN :
        /\ arg' = [arg EXCEPT !.unnormalise = un]
        /\ out' = (IF arg.task_loader /\ arg.data_processor /\ un
                   THEN [out EXCEPT !.mean = Unnormalise(@, TRUE),
                                    !.std = UnnormaliseStd(@),
                                    !.samples = IF arg.n_samples >= 1
                                                THEN Unnormalise(@, TRUE) ELSE @]
                   ELSE out)
    /\ pc' = "done"
    /\ UNCHANGED <<heap, pre, taskVars, loc, rng, log, perr>>

NextPredict ==
    \/ PCheckMode \/ PSetup \/ PWrap \/ PMode
    \/ PAllocMean \/ PAllocStd \/ PAllocSamples \/ PCopy
    \/ POverwrite \/ PCall \/ PMean \/ PStddev \/ PReseed \/ PSample
    \/ PWrite \/ PFinish

SpecPredict == InitPredict /\ [][NextPredict]_vars

-----------------------------------------------------------------------------
(* create_empty_spatiotemporal_xarray called on its own: a caller passes a *)
(* grid X, a resolution factor and the names of the variables.             *)

MaxAxisLen == 4

\* 0.25, 0.5, 0.75, 1, 1.5 and 2
GridFactors ==
    {Ratio(1, 4), Ratio(1, 2), Ratio(3, 4), One, Ratio(3, 2), Ratio(2, 1)}

\* an axis of n points from 6 in steps of 12; bent: its last step is longer
Axis(n, bent) ==
    [i \in 1..n |-> 6 + 12 * (i - 1) + (IF bent /\ i = n THEN 12 ELSE 0)]

InitGrid ==
    /\ \E n1, n2 \in 1..MaxAxisLen, bent \in BOOLEAN, rf \in GridFactors,
          data_vars \in {<<"var">>, <<"var", "var">>} :
        /\ bent => n1 >= 3
        /\ arg = [DefaultArgs EXCEPT
                    !.coords = [x1 |-> Axis(n1, bent), x2 |-> Axis(n2, FALSE)],
                    !.resolution_factor = rf,
                    !.target_var_IDs = <<data_vars>>]
    /\ pc = "create"
    /\ loc = [NoLocals EXCEPT !.dates = <<1, 2>>]
    /\ rng = Unseeded
    /\ log = <<>>
    /\ out = NoOut
    /\ perr = "none"
    /\ heap = <<>> /\ pre = <<>>
    /\ given = 0 /\ live = {} /\ cur = 0 /\ res = 0 /\ err = NoErr
    /\ op = NoOp /\ nops = 0 /\ wrote = FALSE

\* ds = create_empty_spatiotemporal_xarray(X, dates, resolution_factor,
\*                                         data_vars=data_vars)
PCreate ==
    /\ pc = "create"
    /\ LET Built(r) ==
            /\ out' = [out EXCEPT !.mean = r.ds]
            /\ perr' = r.err
            /\ pc' = (IF r.err = "none" THEN "created" ELSE "error")
       IN  Built(CreateEmpty("mean", arg.coords, loc.dates, arg.resolution_factor,
                             Flatten(arg.target_var_IDs), 0))
    /\ UNCHANGED <<heap, pre, taskVars, arg, loc, rng, log>>

SpecGrid == InitGrid /\ [][PCreate]_vars

-----------------------------------------------------------------------------
(* Properties of predict.                                                  *)

SamplingEvents == {"sample", "ar_sample"}

\* C7: with n_samples >= 1, in both calling conventions, each task's
\* sampling call (sample or ar_sample) is made right after the generators
\* are set to seed for that task, nothing drawn and no model call made in
\* between: every sampling call finds the generators as seed leaves them,
\* whatever was drawn for the tasks before.
C7_ReseedBeforeSampling ==
    \A j \in 1..Len(log) :
        log[j].ev \in SamplingEvents =>
            /\ arg.n_samples >= 1
            /\ j > 1
            /\ log[j - 1].ev = "seed"
            /\ log[j - 1].k = log[j].k
            /\ log[j].rng.lab = [seed |-> arg.seed, draws |-> 0]
            /\ log[j].rng.numpy = [seed |-> arg.seed, draws |-> 0]

\* a second task sampled, in distribution mode, after numbers were drawn for
\* it and for the first task
C7_Witness ==
    /\ arg.has_call
    /\ arg.seed = 1
    /\ \E i, j \in 1..Len(log) :
        /\ log[i].ev = "sample" /\ log[i].k = 1
        /\ log[j].ev = "sample" /\ log[j].k = 2
        /\ log[j - 1].ev = "seed" /\ log[j - 1].rng.lab.draws = 2

\* C8: predict leaves the caller's tasks (a Task, or a list and its Tasks)
\* as they were, whether it is running, has returned or has raised; the
\* target coordinates are overwritten in its own copy.
C8_CallerTasksUnchanged ==
    /\ pc # "idle" => DeepEq(heap, arg.tasks, pre, arg.tasks)
    /\ \A t \in CallerTasks : DeepEq(heap, t, pre, t)

\* predict returned, having overwritten X_t in the copies of two tasks
C8_Witness ==
    /\ pc = "done"
    /\ loc.n = 2
    /\ \A k \in 1..2 :
        /\ TaskAt(heap, k) \notin CallerTasks
        /\ heap[Get(heap, TaskAt(heap, k), "X_t")].refs = <<loc.X_t_arr, loc.X_t_arr>>
    /\ \A t \in CallerTasks :
            heap[heap[Get(heap, t, "X_t")].refs[1]].data = << <<1, 2>>, <<3, 4>> >>

\* C9: when predict ends in a validation error, no entry point of the model
\* has been called and no output container has been built.
C9_ValidationEager ==
    perr \in ValidationErrors =>
        \A j \in 1..Len(log) : log[j].ev \notin ModelEvents \cup {"alloc"}

C9_Witness ==
    /\ pc = "error"
    /\ perr = "non-uniform-grid"
    /\ loc.mode = "on-grid"
    /\ arg.n_samples = 1

\* whether predict is past its opening checks
ModeChecked == pc \notin {"idle", "check_mode"}

\* C10 as stated: predict does not return when append_indexes is given with
\* an X_t that is not tabular (DataFrame, Series or Index).
C10_AppendOnlyTabular ==
    (arg.append_indexes # "None" /\ arg.X_t \notin {"DataFrame", "Series", "Index"})
        => pc # "done"

\* C10: predict raises the usage error exactly when resolution_factor != 1
\* comes with an X_t that is not an xarray object, or append_indexes comes
\* with an X_t that is neither tabular nor a coordinate array; a coordinate
\* array with append_indexes is accepted.
C10_InvalidModeOption ==
    ModeChecked =>
        /\ (arg.resolution_factor # One /\ arg.X_t \notin {"DataArray", "Dataset"})
              => (pc = "error" /\ perr \in InvalidModeErrors)
        /\ (/\ arg.append_indexes # "None"
            /\ arg.X_t \notin {"DataFrame", "Series", "Index", "ndarray"})
              => (pc = "error" /\ perr \in InvalidModeErrors)
        /\ (arg.resolution_factor = One /\ arg.append_indexes = "None")
              => perr \notin InvalidModeErrors
        /\ (arg.append_indexes # "None" /\ arg.X_t = "ndarray"
                /\ arg.resolution_factor = One)
              => perr \notin InvalidModeErrors

C10_Witness ==
    /\ pc = "done"
    /\ arg.X_t = "ndarray"
    /\ arg.append_indexes = "same_length"
    /\ loc.appended


\* the time coordinate of the tasks the caller gave
CallerDates ==
    IF pre[arg.tasks].kind = "dict" THEN <<TimeOf(pre, arg.tasks)>>
    ELSE Dates(pre, arg.tasks)

\* every cell of container c is written: it holds a plane of the statistic
\* stat, computed for the task of the cell's time at every point of the
\* container's grid
Filled(c, stat) ==
    \A x \in DOMAIN c.cells :
        /\ c.cells[x] # NaN
        /\ c.cells[x].stat = stat
        /\ c.cells[x].k = x[3]
        /\ c.cells[x].shape = PlaneShape(c)

\* C11: when predict returns for a grid-shaped X_t, mean and std have the
\* variables of task_loader.target_var_IDs, one time entry per task and no
\* sample axis, and every cell of them is written; with n_samples = k >= 1
\* samples has, besides, the sample axis 0..k-1 and every cell of every
\* sample written; with n_samples = 0 no samples container is built.
C11_GridContainersFilled ==
    (pc = "done" /\ loc.mode = "on-grid") =>
        /\ \A w \in {"mean", "std"} :
            /\ out[w].alloc
            /\ out[w].vars = Flatten(arg.target_var_IDs)
            /\ out[w].time = CallerDates
            /\ out[w].sample = <<>>
            /\ DOMAIN out[w].cells =
                 CellsOf(Len(Flatten(arg.target_var_IDs)), 0, Len(CallerDates))
        /\ Filled(out.mean, "mean")
        /\ Filled(out.std, "std")
        /\ IF arg.n_samples >= 1
           THEN /\ out.samples.alloc
                /\ out.samples.vars = Flatten(arg.target_var_IDs)
                /\ out.samples.time = CallerDates
                /\ out.samples.sample = [i \in 1..arg.n_samples |-> i - 1]
                /\ DOMAIN out.samples.cells =
                     CellsOf(Len(Flatten(arg.target_var_IDs)), arg.n_samples,
                             Len(CallerDates))
                /\ Filled(out.samples, "sample")
                /\ \A x \in DOMAIN out.samples.cells :
                        out.samples.cells[x].sample = x[2] - 1
           ELSE ~out.samples.alloc

\* predict returned mean, std and samples of two variables for two tasks on
\* a grid of 3 by 2 points
C11_Witness ==
    /\ pc = "done"
    /\ loc.mode = "on-grid"
    /\ arg.n_samples = 1
    /\ Len(CallerDates) = 2
    /\ out.mean.vars = <<"t2m", "wind">>
    /\ PlaneShape(out.samples) = <<3, 2>>
    /\ out.mean.cells[<<2, 0, 2>>] = Plane("mean", 2, 2, 1, -1, <<3, 2>>)

\* whether a container was unnormalised, and how
Unnormalised(how) ==
    /\ out.mean.unnorm = how[1]
    /\ out.std.unnorm = how[2]
    /\ out.samples.unnorm = how[3]

\* C12: predict returns mean and samples unnormalised with scale and offset
\* and std with scale only when task_loader and data_processor are set and
\* unnormalise is true; otherwise, and as long as it has not returned, no
\* container is unnormalised.
C12_UnnormaliseWhenAvailable ==
    IF pc = "done" /\ arg.task_loader /\ arg.data_processor /\ arg.unnormalise
    THEN Unnormalised(<<"scale and offset", "scale",
                        IF arg.n_samples >= 1 THEN "scale and offset" ELSE "no">>)
    ELSE Unnormalised(<<"no", "no", "no">>)

C12_Witness ==
    /\ pc = "done"
    /\ arg.n_samples = 1
    /\ out.samples.alloc
    /\ Unnormalised(<<"scale and offset", "scale", "scale and offset">>)
    /\ Filled(out.std, "std")


\* the axes of X and of the dataset built from it
RawAxes == <<arg.coords.x1, arg.coords.x2>>
BuiltAxes == <<out.mean.x1, out.mean.x2>>

\* round(size * num / den), halves to the even number
Round(size, rf) ==
    LET q == (size * rf[1]) \div rf[2]
        r == (size * rf[1]) % rf[2]
    IN  IF 2 * r < rf[2] THEN q
        ELSE IF 2 * r > rf[2] THEN q + 1
        ELSE IF q % 2 = 0 THEN q ELSE q + 1

\* C13 as stated: the dataset built has the axes of X when resolution_factor
\* is 1, and otherwise axes of round(size * resolution_factor) points from
\* the first to the last value of the axes of X.
C13_AxisRounded ==
    pc = "created" =>
        \A a \in 1..2 :
            IF arg.resolution_factor = One THEN BuiltAxes[a] = RawAxes[a]
            ELSE /\ Len(BuiltAxes[a]) = Round(Len(RawAxes[a]), arg.resolution_factor)
                 /\ Len(BuiltAxes[a]) >= 1
                 /\ BuiltAxes[a][1] = RawAxes[a][1]
                 /\ BuiltAxes[a][Len(BuiltAxes[a])] = RawAxes[a][Len(RawAxes[a])]

\* a dataset built at half the resolution from axes of 3 and of 4 points
C13_Witness ==
    /\ pc = "created"
    /\ arg.resolution_factor = Ratio(1, 2)
    /\ RawAxes = <<Axis(3, FALSE), Axis(4, FALSE)>>
    /\ BuiltAxes = << <<6>>, <<6, 42>> >>


\* the entries of the log of the calls ev made for the task at k
Calls(ev, k) == {j \in 1..Len(log) : log[j].ev = ev /\ log[j].k = k}

\* the call at entry j of the log is given the distribution that the call of
\* the model for the same task returned
GivenDist(j) ==
    /\ log[j].on = "dist"
    /\ log[j].obj \in Calls("call", log[j].k)
    /\ log[j].obj < j

\* the call at entry j of the log is given the task the loop is at
GivenTask(j) ==
    /\ log[j].on = "task"
    /\ log[j].obj = TaskAt(heap, log[j].k)

\* C14 as stated: when the model defines __call__ it is called once per task
\* and mean, stddev, sample and ar_sample are given the distribution it
\* returned; when it does not, it is never called and they are given the
\* task.
C14_DistributionReused ==
    \A j \in 1..Len(log) :
        /\ log[j].ev = "call" =>
              arg.has_call /\ GivenTask(j) /\ Calls("call", log[j].k) = {j}
        /\ log[j].ev \in {"mean", "stddev", "sample", "ar_sample"} =>
              IF arg.has_call THEN GivenDist(j) ELSE GivenTask(j)

\* C14: when the model defines __call__ it is called once per task, before
\* the other calls for the task; mean, stddev and sample are given the
\* distribution it returned, and ar_sample is given the task; when the model
\* does not define __call__ it is never called, and mean, stddev, sample and
\* ar_sample are given the task.
C14_DistributionReusedButArSample ==
    \A j \in 1..Len(log) :
        /\ log[j].ev = "call" =>
              arg.has_call /\ GivenTask(j) /\ Calls("call", log[j].k) = {j}
        /\ log[j].ev \in {"mean", "stddev", "sample"} =>
              IF arg.has_call THEN GivenDist(j) ELSE GivenTask(j)
        /\ log[j].ev = "ar_sample" => GivenTask(j)

\* predict returned after ar_sample was given the second task, in
\* distribution mode
C14_Witness ==
    /\ pc = "done"
    /\ arg.has_call
    /\ \E j \in Calls("ar_sample", 2) : GivenTask(j) /\ GivenDist(j - 3)
    /\ Calls("call", 1) # {} /\ Calls("call", 2) # {}


\* the target set and the variable of that set at each position of the
\* variable axis
SetVarOrder(ids) ==
    Flatten([i \in 1..Len(ids) |-> [j \in 1..Len(ids[i]) |-> <<i, j>>]])

\* every cell of container c that is written holds the variable of its
\* position
InTargetSetOrder(c) ==
    \A x \in DOMAIN c.cells :
        c.cells[x] # NaN =>
            <<c.cells[x].set, c.cells[x].var>> = SetVarOrder(arg.target_var_IDs)[x[1]]

\* C15 as stated: with a model of several target sets, the slices written
\* in mean, in std and in samples hold the variables of all the target sets,
\* in the order of the target sets.
C15_AllTargetSetsWritten ==
    ReturnsList(arg.target_var_IDs) =>
        /\ InTargetSetOrder(out.mean)
        /\ InTargetSetOrder(out.std)
        /\ InTargetSetOrder(out.samples)

\* predict returned samples of two target sets of one variable each: the
\* cell of the second variable holds the sample of the first target set,
\* while mean and std hold the second target set's
C15_Witness ==
    /\ pc = "done"
    /\ loc.mode = "on-grid"
    /\ arg.target_var_IDs = << <<"t2m">>, <<"wind">> >>
    /\ arg.n_samples = 1
    /\ out.samples.cells[<<2, 1, 1>>] = Plane("sample", 1, 1, 1, 0, PlaneShape(out.samples))
    /\ InTargetSetOrder(out.mean)
    /\ InTargetSetOrder(out.std)
    /\ Filled(out.mean, "mean")

\* the caller's task at position k
CallerTaskAt(k) ==
    IF pre[arg.tasks].kind = "dict" THEN arg.tasks ELSE pre[arg.tasks].refs[k]

\* the tasks whose target coordinates the loop has overwritten
Overwritten == {k \in 1..loc.n : Calls("overwrite", k) # {}}

\* the query coordinates: the pair of the axes of mean (a grid) or the array
\* of the coordinates of the index of X_t
QueryCoordinates(a) ==
    IF loc.mode = "on-grid"
    THEN /\ heap[a].kind = "tuple"
         /\ heap[heap[a].refs[1]].data = <<out.mean.x1>>
         /\ heap[heap[a].refs[2]].data = <<out.mean.x2>>
    ELSE heap[a].data = <<arg.coords.x1, arg.coords.x2>>

\* C16: the entries of the log follow the order of the tasks, so that every
\* call and write for a task precedes the first call for a later task; for
\* each task the overwrite of X_t comes first and the write last; an
\* overwritten task holds the query coordinates once per target set it had,
\* and a task not yet overwritten is as the caller gave it; a cell written
\* for a task lies at an entry of the time coordinate that equals the
\* task's time.
C16_TasksInOrder ==
    /\ \A i, j \in 1..Len(log) :
          (i < j /\ log[i].k > 0 /\ log[j].k > 0) =>
              /\ log[i].k <= log[j].k
              /\ log[i].k = log[j].k =>
                    /\ log[j].ev # "overwrite"
                    /\ log[i].ev # "write"
    /\ \A j \in 1..Len(log) :
          log[j].ev \in ModelEvents \cup {"write"} => log[j].k \in Overwritten
    /\ \A k \in 1..loc.n :
          pc \notin {"setup", "wrap", "mode", "alloc_mean", "alloc_std",
                     "alloc_samples", "copy"} =>
              IF k \in Overwritten
              THEN LET X_t == heap[Get(heap, TaskAt(heap, k), "X_t")].refs
                   IN  /\ Len(X_t) = Len(pre[Get(pre, CallerTaskAt(k), "X_t")].refs)
                       /\ \A i \in 1..Len(X_t) :
                              X_t[i] = loc.X_t_arr /\ QueryCoordinates(X_t[i])
              ELSE DeepEq(heap, TaskAt(heap, k), pre, CallerTaskAt(k))
    /\ \A w \in {"mean", "std", "samples"} :
          \A x \in DOMAIN out[w].cells :
              out[w].cells[x] # NaN =>
                  /\ Calls("write", out[w].cells[x].k) # {}
                  /\ out[w].time[x[3]] =
                        TimeOf(heap, TaskAt(heap, out[w].cells[x].k))

\* the second of two tasks written after the first, the cells of the first
\* task's time left as the first task's write made them
C16_Witness ==
    /\ pc = "finish"
    /\ loc.n = 2
    /\ Overwritten = {1, 2}
    /\ Calls("write", 1) # {} /\ Calls("write", 2) # {}
    /\ out.mean.cells[<<1, 0, 1>>].k = 1
    /\ out.mean.cells[<<1, 0, 2>>].k = 2
    /\ out.mean.time = <<1, 2>>

====
